---- MODULE Spec2Model ----
(***************************************************************************)
(* Model of intervalset.py: the Interval value type (a namedtuple with a  *)
(* distinguished EMPTY_INTERVAL), the IntervalSet constructor             *)
(* (_fill_items) and the two-pointer sweeps of IntervalSet (__and__,      *)
(* __or__, __sub__, __eq__).                                              *)
(*                                                                        *)
(* Every function of the library is pure, so each one is an operator that *)
(* is computed the way the code computes it, and the actions apply the    *)
(* operators to the operands held in the state.  An outcome is a record   *)
(* [exc, val]: exc = "" for a normal return, else the name of the Python  *)
(* exception that leaves the call.                                        *)
(***************************************************************************)
EXTENDS Integers, Sequences, FiniteSets

VARIABLES op, self, other, items, A, B, res, sweep

vars == <<op, self, other, items, A, B, res, sweep>>

----------------------------------------------------------------------------
(* Bounds of the model. *)

\* Largest endpoint value; endpoints range over -2 .. MaxVal, so that zero,
\* negative and positive endpoints all occur.
MaxVal == 3

\* Largest number of arguments handed to the IntervalSet constructor.
MaxLen == 3

\* Largest number of members Interval(x, x) in a set operand.
MaxDegenerate == 1

Values == (-2) .. MaxVal

\* An optional endpoint as passed to Interval(begin, end): <<>> is None.
OptValues == {<<>>} \cup {<<v>> : v \in Values}

----------------------------------------------------------------------------
(* Python objects. *)

\* The object None.  begin/end are padding that keeps every object a record
\* of one shape.
NoneObj == [tag |-> "None", begin |-> 0, end |-> 0]

\* A namedtuple instance Interval(begin, end).
Tuple(b, e) == [tag |-> "Interval", begin |-> b, end |-> e]

Ok(v) == [exc |-> "", val |-> v]

Raise(e, v) == [exc |-> e, val |-> v]

\* Module import runs  EMPTY_INTERVAL = None ; EMPTY_INTERVAL = Interval(None, None).
\* In that call "EMPTY_INTERVAL is not None and begin is None" is False and
\* "end is None" is True (and binds tighter than or), so __new__ returns the
\* current EMPTY_INTERVAL, which is None: the constant stays None.
EMPTY_INTERVAL == NoneObj

\* Interval.__new__(cls, begin, end), begin and end optional values.
\* Condition:  (EMPTY_INTERVAL is not None and begin is None) or end is None
\*             or end < begin
\* The first disjunct is False; "end < begin" with begin None and end an int
\* raises TypeError.
New(begin, end) ==
    IF end = <<>> THEN Ok(EMPTY_INTERVAL)
    ELSE IF begin = <<>> THEN Raise("TypeError", NoneObj)
    ELSE IF end[1] < begin[1] THEN Ok(EMPTY_INTERVAL)
    ELSE Ok(Tuple(begin[1], end[1]))

\* Truth value of an object: Interval.__bool__ for an Interval, False for None.
Truthy(x) == x.tag = "Interval" /\ x # EMPTY_INTERVAL

\* Interval.__and__(self, other), reached through  self & other.
\* None has no __and__ and Interval no __rand__: a None left operand is a
\* TypeError.
IAnd(s, o) ==
    IF s.tag = "None" THEN Raise("TypeError", NoneObj)
    ELSE IF ~Truthy(s) \/ ~Truthy(o) \/ s.end <= o.begin \/ o.end <= s.begin
         THEN Ok(EMPTY_INTERVAL)
    ELSE IF s.begin >= o.begin /\ s.end <= o.end THEN Ok(s)
    ELSE IF o.begin >= s.begin /\ o.end <= s.end THEN Ok(o)
    ELSE LET begin == IF s.begin > o.begin THEN s.begin ELSE o.begin
             end   == IF s.end < o.end THEN s.end ELSE o.end
         IN  New(<<begin>>, <<end>>)

\* Interval.__or__(self, other), reached through  self | other.
IOr(s, o) ==
    IF s.tag = "None" THEN Raise("TypeError", NoneObj)
    ELSE IF ~Truthy(s) \/ ~Truthy(o) \/ s.end < o.begin \/ o.end < s.begin
         THEN Raise("ValueError", NoneObj)
    ELSE IF s.begin >= o.begin /\ s.end <= o.end THEN Ok(o)
    ELSE IF o.begin >= s.begin /\ o.end <= s.end THEN Ok(s)
    ELSE LET begin == IF s.begin > o.begin THEN o.begin ELSE s.begin
             end   == IF s.end < o.end THEN o.end ELSE s.end
         IN  New(<<begin>>, <<end>>)

\* Interval.is_before_than(self, other), for self an Interval.
is_before_than(s, o) ==
    s = EMPTY_INTERVAL \/ o = EMPTY_INTERVAL \/ s.end < o.begin

----------------------------------------------------------------------------
(* IntervalSet construction. *)

\* Python's order on Interval namedtuples: lexicographic on (begin, end).
TupleLess(x, y) ==
    x.begin < y.begin \/ (x.begin = y.begin /\ x.end < y.end)

RECURSIVE Insert(_, _)
Insert(x, s) ==
    IF s = <<>> THEN <<x>>
    ELSE IF TupleLess(Head(s), x) THEN <<Head(s)>> \o Insert(x, Tail(s))
    ELSE <<x>> \o s

RECURSIVE SortSeq(_)
SortSeq(s) == IF s = <<>> THEN <<>> ELSE Insert(Head(s), SortSeq(Tail(s)))

\* A plausible slip: the constructor sweeps its arguments as given.
sortedSkipped(its) ==
    IF Len(its) >= 2 /\ \E k \in 1..Len(its) : its[k].tag = "None"
    THEN Raise("TypeError", <<>>)
    ELSE Ok(its)

\* sorted(items).  Sorting two or more objects compares each of them with
\* another one, and "<" between None and an Interval (or None) is a TypeError.
sorted(its) ==
    IF Len(its) >= 2 /\ \E k \in 1..Len(its) : its[k].tag = "None"
    THEN Raise("TypeError", <<>>)
    ELSE Ok(SortSeq(its))

\* "for i1 in it: if i1: break": the position at which the first loop of
\* _fill_items stops, the last position when no item is truthy.
RECURSIVE FirstNonEmpty(_, _)
FirstNonEmpty(s, k) ==
    IF k >= Len(s) \/ Truthy(s[k]) THEN k ELSE FirstNonEmpty(s, k + 1)

\* One pass of "for i2 in it" in _fill_items: the outcome is the new
\* accumulator i1 and the items appended to _items.
FillStep(i1, i2) ==
    IF i1.tag = "None"
    THEN [exc |-> "AttributeError", i1 |-> i1, emit |-> <<>>]
    ELSE IF is_before_than(i1, i2)
    THEN [exc |-> "", i1 |-> i2, emit |-> <<i1>>]
    ELSE LET i3 == IAnd(i1, i2) IN
         IF i3.exc # "" THEN [exc |-> i3.exc, i1 |-> i1, emit |-> <<>>]
         ELSE IF Truthy(i3.val) \/ i1.end = i2.begin
         THEN LET u == IOr(i1, i2) IN
              IF u.exc # "" THEN [exc |-> u.exc, i1 |-> i1, emit |-> <<>>]
              ELSE [exc |-> "", i1 |-> u.val, emit |-> <<>>]
         ELSE [exc |-> "Exception", i1 |-> i1, emit |-> <<>>]

RECURSIVE FillSweep(_, _, _, _)
FillSweep(i1, s, n, out) ==
    IF n > Len(s)
    THEN Ok(IF Truthy(i1) THEN Append(out, i1) ELSE out)
    ELSE LET st == FillStep(i1, s[n]) IN
         IF st.exc # "" THEN Raise(st.exc, <<>>)
         ELSE FillSweep(st.i1, s, n + 1, out \o st.emit)

\* IntervalSet(*items): _fill_items(items); the outcome's val is _items.
IntervalSet(its) ==
    IF its = <<>> THEN Ok(<<>>)
    ELSE LET srt == sorted(its) IN
         IF srt.exc # "" THEN srt
         ELSE LET k == FirstNonEmpty(srt.val, 1) IN
              FillSweep(srt.val[k], srt.val, k + 1, <<>>)

----------------------------------------------------------------------------
(* IntervalSet algebra.  A set is represented by its _items tuple. *)

\* A plausible slip: the comparison that picks the pointer to advance is
\* turned around.
AndStepFlipped(i1, i2) ==
    IF is_before_than(i1, i2) THEN [emit |-> <<>>, adv |-> "it1"]
    ELSE IF is_before_than(i2, i1) THEN [emit |-> <<>>, adv |-> "it2"]
    ELSE LET i3 == IAnd(i1, i2).val IN
         [emit |-> IF Truthy(i3) THEN <<i3>> ELSE <<>>,
          adv  |-> IF i1.end > i2.end THEN "it1" ELSE "it2"]

\* One pass of the loop of IntervalSet.__and__: what is appended to
\* new_items and which iterator is advanced.
AndStep(i1, i2) ==
    IF is_before_than(i1, i2) THEN [emit |-> <<>>, adv |-> "it1"]
    ELSE IF is_before_than(i2, i1) THEN [emit |-> <<>>, adv |-> "it2"]
    ELSE LET i3 == IAnd(i1, i2).val IN
         [emit |-> IF Truthy(i3) THEN <<i3>> ELSE <<>>,
          adv  |-> IF i1.end < i2.end THEN "it1" ELSE "it2"]

\* The loop of __and__; i and j are the positions of i1 and i2, and a
\* position past the end is the StopIteration that ends the loop.
RECURSIVE AndLoop(_, _, _, _, _)
AndLoop(a, b, i, j, out) ==
    IF i > Len(a) \/ j > Len(b) THEN out
    ELSE LET st == AndStep(a[i], b[j]) IN
         IF st.adv = "it1" THEN AndLoop(a, b, i + 1, j, out \o st.emit)
         ELSE AndLoop(a, b, i, j + 1, out \o st.emit)

\* IntervalSet.__and__(self, other)
SAnd(a, b) ==
    IF a = <<>> THEN Ok(a)
    ELSE IF b = <<>> THEN Ok(b)
    ELSE IntervalSet(AndLoop(a, b, 1, 1, <<>>))

\* list(remaining) for an iterator that has yielded the first n items of s.
Rest(s, n) == SubSeq(s, n + 1, Len(s))

\* The loop of __or__, i and j the positions of i1 and i2; the value is
\* new_items after "new_items += list(remaining)".
RECURSIVE OrLoop(_, _, _, _, _)
OrLoop(a, b, i, j, out) ==
    LET i1 == a[i]
        i2 == b[j]
    IN  IF is_before_than(i1, i2)
        THEN IF i + 1 > Len(a)
             THEN Ok((out \o <<i1, i2>>) \o Rest(b, j))
             ELSE OrLoop(a, b, i + 1, j, Append(out, i1))
        ELSE IF is_before_than(i2, i1)
        THEN IF j + 1 > Len(b)
             THEN Ok((out \o <<i2, i1>>) \o Rest(a, i))
             ELSE OrLoop(a, b, i, j + 1, Append(out, i2))
        ELSE LET u == IOr(i1, i2) IN
             IF u.exc # "" THEN Raise(u.exc, <<>>)
             ELSE IF i + 1 > Len(a)
             THEN Ok(Append(out, u.val) \o Rest(b, j))
             ELSE IF j + 1 > Len(b)
             THEN Ok(Append(out, u.val) \o <<a[i + 1]>>)
             ELSE OrLoop(a, b, i + 1, j + 1, Append(out, u.val))

\* IntervalSet.__or__(self, other)
SOr(a, b) ==
    IF a = <<>> THEN Ok(b)
    ELSE IF b = <<>> THEN Ok(a)
    ELSE LET m == OrLoop(a, b, 1, 1, <<>>) IN
         IF m.exc # "" THEN m ELSE IntervalSet(m.val)

\* Interval(b, e) for two values, as appended to new_items by __sub__.
Piece(b, e) == New(<<b>>, <<e>>).val

\* A plausible slip: the remainder (e2, e1) is emitted at once instead of
\* being kept pending for the later items of it2.
SubStepEager(b1, e1, b2, e2) ==
    IF b1 >= e1 THEN [emit |-> <<>>, cur |-> <<b1, e1>>, adv |-> "it1"]
    ELSE IF e1 <= b2
    THEN [emit |-> <<Piece(b1, e1)>>, cur |-> <<b1, e1>>, adv |-> "it1"]
    ELSE IF e2 <= b1 THEN [emit |-> <<>>, cur |-> <<b1, e1>>, adv |-> "it2"]
    ELSE IF b1 < b2 /\ b2 <= e1 /\ e1 <= e2
    THEN [emit |-> <<Piece(b1, b2)>>, cur |-> <<b1, e1>>, adv |-> "it1"]
    ELSE IF b2 <= b1 /\ b1 <= e2 /\ e2 < e1
    THEN [emit |-> <<Piece(e2, e1)>>, cur |-> <<b1, e1>>, adv |-> "it1"]
    ELSE IF b2 <= b1 /\ b1 <= e1 /\ e1 <= e2
    THEN [emit |-> <<>>, cur |-> <<b1, e1>>, adv |-> "it1"]
    ELSE IF b1 < b2 /\ b2 <= e2 /\ e2 <= e1
    THEN [emit |-> <<Piece(b1, b2)>>, cur |-> <<e2, e1>>, adv |-> "none"]
    ELSE [emit |-> <<>>, cur |-> <<b1, e1>>, adv |-> "spin"]

\* One pass of the loop of IntervalSet.__sub__ on the pending piece (b1, e1)
\* and the current item (b2, e2) of it2: what is appended to new_items, the
\* pending piece afterwards, and the iterator that is advanced ("it1" also
\* resets the pending piece; "spin" is a pass that changes nothing).
SubStep(b1, e1, b2, e2) ==
    IF b1 >= e1 THEN [emit |-> <<>>, cur |-> <<b1, e1>>, adv |-> "it1"]
    ELSE IF e1 <= b2
    THEN [emit |-> <<Piece(b1, e1)>>, cur |-> <<b1, e1>>, adv |-> "it1"]
    ELSE IF e2 <= b1 THEN [emit |-> <<>>, cur |-> <<b1, e1>>, adv |-> "it2"]
    ELSE IF b1 < b2 /\ b2 <= e1 /\ e1 <= e2
    THEN [emit |-> <<Piece(b1, b2)>>, cur |-> <<b1, e1>>, adv |-> "it1"]
    ELSE IF b2 <= b1 /\ b1 <= e2 /\ e2 < e1
    THEN [emit |-> <<>>, cur |-> <<e2, e1>>, adv |-> "it2"]
    ELSE IF b2 <= b1 /\ b1 <= e1 /\ e1 <= e2
    THEN [emit |-> <<>>, cur |-> <<b1, e1>>, adv |-> "it1"]
    ELSE IF b1 < b2 /\ b2 <= e2 /\ e2 <= e1
    THEN [emit |-> <<Piece(b1, b2)>>, cur |-> <<e2, e1>>, adv |-> "none"]
    ELSE [emit |-> <<>>, cur |-> <<b1, e1>>, adv |-> "spin"]

\* The loop of __sub__.  cur is (b1, e1), or <<>> once both are None; i and j
\* are the positions of the items of it1 and it2 in use.  The value is the
\* state in which the loop is left: stop names the iterator whose
\* StopIteration ended it.
RECURSIVE SubLoop(_, _, _, _, _, _)
SubLoop(a, b, i, j, cur, out) ==
    LET st == SubStep(cur[1], cur[2], b[j].begin, b[j].end)
        o2 == out \o st.emit
    IN  IF st.adv = "it1"
        THEN IF i + 1 > Len(a)
             THEN [stop |-> "it1", cur |-> <<>>, new_items |-> o2]
             ELSE SubLoop(a, b, i + 1, j, <<a[i + 1].begin, a[i + 1].end>>, o2)
        ELSE IF st.adv = "it2"
        THEN IF j + 1 > Len(b)
             THEN [stop |-> "it2", cur |-> st.cur, new_items |-> o2]
             ELSE SubLoop(a, b, i, j + 1, st.cur, o2)
        ELSE IF st.adv = "none"
        THEN SubLoop(a, b, i, j, st.cur, o2)
        ELSE [stop |-> "never", cur |-> st.cur, new_items |-> o2]

\* Truth value of an int.
IntTruthy(v) == v # 0

\* "if b1 and e1 and b1 < e1: new_items.append(Interval(b1, e1))"
Flush(lp) ==
    IF lp.cur # <<>> /\ IntTruthy(lp.cur[1]) /\ IntTruthy(lp.cur[2])
       /\ lp.cur[1] < lp.cur[2]
    THEN Append(lp.new_items, Piece(lp.cur[1], lp.cur[2]))
    ELSE lp.new_items

\* The state of a __sub__ call that returns before its loop.
NoSweep == [stop |-> "", cur |-> <<>>, new_items |-> <<>>]

\* The loop of __sub__ on two non-empty sets, from its first pass.
SubSweep(a, b) ==
    IF a = <<>> \/ b = <<>> THEN NoSweep
    ELSE SubLoop(a, b, 1, 1, <<a[1].begin, a[1].end>>, <<>>)

\* IntervalSet.__sub__(self, other)
SSub(a, b) ==
    IF a = <<>> THEN Ok(a)
    ELSE IF b = <<>> THEN Ok(a)
    ELSE LET lp == SubSweep(a, b) IN
         IF lp.stop = "never" THEN Raise("NoReturn", <<>>)
         ELSE IntervalSet(Flush(lp))

\* hash(v) of a small int: the value, except that -1 is reserved and
\* hashes as -2.
HashInt(v) == IF v = -1 THEN -2 ELSE v

\* hash(t) of a tuple: a function of the hashes of its elements, in order.
\* The model keeps the sequence of element hashes, so two tuples collide in
\* the model only if their elements' hashes agree one by one (they then
\* collide in Python too).
HashTuple(hs) == hs

\* hash of a set's _items, a tuple of Interval namedtuples.
HashItems(s) ==
    HashTuple([k \in 1..Len(s) |->
                  HashTuple(<<HashInt(s[k].begin), HashInt(s[k].end)>>)])

\* IntervalSet.__eq__(self, other): hash(self) == hash(other)
SEq(a, b) == HashItems(a) = HashItems(b)

----------------------------------------------------------------------------
(* The IntervalSet values: what the constructor stores. *)

\* The _items tuples whose members all begin at lo or later: members with
\* begin <= end, each ending strictly before the next begins, at most d of
\* them with begin = end.
RECURSIVE CanonFrom(_, _)
CanonFrom(lo, d) ==
    {<<>>} \cup
    UNION { { <<Tuple(p[1], p[2])>> \o t :
              t \in CanonFrom(p[2] + 1, IF p[1] = p[2] THEN d - 1 ELSE d) } :
            p \in {q \in (lo..MaxVal) \X (lo..MaxVal) :
                     q[1] < q[2] \/ (q[1] = q[2] /\ d > 0)} }

IntervalSets == CanonFrom(-2, MaxDegenerate)

----------------------------------------------------------------------------
(* State machines.  A caller holds operands and applies the operations. *)

NoRes == Ok(NoneObj)

\* After "import intervalset": the only Interval object is EMPTY_INTERVAL.
Init ==
    /\ op = "import"
    /\ self = EMPTY_INTERVAL
    /\ other = EMPTY_INTERVAL
    /\ items = <<>>
    /\ A = <<>>
    /\ B = <<>>
    /\ res = NoRes
    /\ sweep = NoSweep

\* x = Interval(begin, end), bound to self or other when it returns.
NewInterval ==
    \E begin \in OptValues, end \in OptValues, slot \in {"self", "other"} :
       LET r == New(begin, end) IN
       /\ op' = "Interval"
       /\ res' = r
       /\ self' = IF r.exc = "" /\ slot = "self" THEN r.val ELSE self
       /\ other' = IF r.exc = "" /\ slot = "other" THEN r.val ELSE other
       /\ UNCHANGED <<items, A, B, sweep>>

\* self & other
IntervalAnd ==
    /\ op' = "Interval.__and__"
    /\ res' = IAnd(self, other)
    /\ UNCHANGED <<self, other, items, A, B, sweep>>

\* self | other
IntervalOr ==
    /\ op' = "Interval.__or__"
    /\ res' = IOr(self, other)
    /\ UNCHANGED <<self, other, items, A, B, sweep>>

NextInterval == NewInterval \/ IntervalAnd \/ IntervalOr

SpecInterval == Init /\ [][NextInterval]_vars

\* One more Interval(begin, end) is added to the constructor's arguments.
AddItem ==
    /\ Len(items) < MaxLen
    /\ \E begin \in OptValues, end \in OptValues :
          LET r == New(begin, end) IN
          /\ r.exc = ""
          /\ items' = Append(items, r.val)
    /\ op' = "args"
    /\ res' = NoRes
    /\ UNCHANGED <<self, other, A, B, sweep>>

\* IntervalSet(*items)
Construct ==
    /\ op' = "IntervalSet"
    /\ res' = IntervalSet(items)
    /\ UNCHANGED <<self, other, items, A, B, sweep>>

NextFill == AddItem \/ Construct

SpecFill == Init /\ [][NextFill]_vars

\* Two IntervalSet values are at hand.  The sets are immutable and no
\* operation changes its operands, so a run applies one operation to them:
\* applying a second one would reach the states of applying it first.
InitSet ==
    /\ op = "import"
    /\ self = EMPTY_INTERVAL
    /\ other = EMPTY_INTERVAL
    /\ items = <<>>
    /\ A \in IntervalSets
    /\ B \in IntervalSets
    /\ res = NoRes
    /\ sweep = NoSweep

\* A & B
SetAnd ==
    /\ op = "import"
    /\ op' = "IntervalSet.__and__"
    /\ res' = SAnd(A, B)
    /\ sweep' = NoSweep
    /\ UNCHANGED <<self, other, items, A, B>>

\* A | B
SetOr ==
    /\ op = "import"
    /\ op' = "IntervalSet.__or__"
    /\ res' = SOr(A, B)
    /\ sweep' = NoSweep
    /\ UNCHANGED <<self, other, items, A, B>>

\* A - B; sweep keeps the state in which the loop was left and new_items as
\* handed to the constructor.
SetSub ==
    /\ op = "import"
    /\ op' = "IntervalSet.__sub__"
    /\ res' = SSub(A, B)
    /\ sweep' = LET lp == SubSweep(A, B) IN
                [lp EXCEPT !.new_items = Flush(lp)]
    /\ UNCHANGED <<self, other, items, A, B>>

\* A == B
SetEq ==
    /\ op = "import"
    /\ op' = "IntervalSet.__eq__"
    /\ res' = Ok(SEq(A, B))
    /\ sweep' = NoSweep
    /\ UNCHANGED <<self, other, items, A, B>>

NextSet == SetAnd \/ SetOr \/ SetSub \/ SetEq

SpecSet == InitSet /\ [][NextSet]_vars

----------------------------------------------------------------------------
(* Reference notions the claims are stated with. *)

Members(s) == {s[k] : k \in 1..Len(s)}

\* Every member has begin < end.
Proper(s) == \A k \in 1..Len(s) : s[k].begin < s[k].end

\* Adjacent members are separated by a strict gap.
StrictGaps(s) == \A k \in 1..(Len(s) - 1) : s[k].end < s[k + 1].begin

\* No member is EMPTY_INTERVAL.
NoEmptyMember(s) == \A k \in 1..Len(s) : s[k] # EMPTY_INTERVAL

\* The unit ranges [v, v+1] that a set covers.
Cov(s) == {v \in Values : \E m \in Members(s) : m.begin <= v /\ v < m.end}

\* The maximal runs of a set of unit ranges, as intervals.
Runs(P) ==
    { Tuple(v, CHOOSE e \in (v + 1)..(MaxVal + 1) :
                  e \notin P /\ \A k \in v..(e - 1) : k \in P) :
      v \in {w \in P : (w - 1) \notin P} }

RECURSIVE Ascending(_)
Ascending(S) ==
    IF S = {} THEN <<>>
    ELSE LET m == CHOOSE x \in S : \A y \in S : x.begin <= y.begin
         IN  <<m>> \o Ascending(S \ {m})

\* The canonical sequence that covers exactly the unit ranges P.
FromCov(P) == Ascending(Runs(P))

\* a lies within b.
Within(a, b) == b.begin <= a.begin /\ a.end <= b.end

\* a and b share a range of positive length.
Overlap(a, b) ==
    (IF a.begin > b.begin THEN a.begin ELSE b.begin)
        < (IF a.end < b.end THEN a.end ELSE b.end)

\* The arguments of a constructor call that are not EMPTY_INTERVAL.
NonEmptyOf(its) == SelectSeq(its, LAMBDA x : x # EMPTY_INTERVAL)

\* An Interval(x, x).
Degenerate(x) == x.tag = "Interval" /\ x.begin = x.end

----------------------------------------------------------------------------
(* The claims. *)

\* C1: for canonical sets A and B whose members have begin < end, A - B is
\* the canonical set that covers exactly what A covers and B does not: each
\* maximal sub-range of a member of A that no member of B overlaps is a
\* member of the result, and nothing else is.
C1_SubIsExactDifference ==
    (op = "IntervalSet.__sub__" /\ Proper(A) /\ Proper(B))
        => res = Ok(FromCov(Cov(A) \ Cov(B)))

\* C2: for canonical sets A and B, A | B is the canonical set that covers
\* exactly what A or B covers, and every member of A and of B lies within
\* some member of the result, whichever sequence is exhausted first.
C2_OrIsExactUnion ==
    (op = "IntervalSet.__or__" /\ Proper(A) /\ Proper(B))
        => /\ res = Ok(FromCov(Cov(A) \cup Cov(B)))
           /\ \A m \in Members(A) \cup Members(B) :
                 \E r \in Members(res.val) : Within(m, r)

\* C3: the constructor completes without error on any finite collection of
\* Intervals, EMPTY_INTERVAL among them; Empty entries are ignored; the
\* stored sequence has strict gaps between adjacent members and no member
\* is EMPTY_INTERVAL.
C3_ConstructorTotalCanonical ==
    op = "IntervalSet"
        => /\ res.exc = ""
           /\ StrictGaps(res.val)
           /\ NoEmptyMember(res.val)
           /\ res = IntervalSet(NonEmptyOf(items))

\* C4: for canonical sets A and B, A & B returns the canonical set whose
\* members are exactly the non-Empty pairwise intersections a & b, in
\* ascending order; members that only touch contribute nothing (the result
\* covers exactly what both A and B cover); the result is the empty set when
\* either operand is.
C4_AndIsPairwiseIntersections ==
    op = "IntervalSet.__and__"
        => /\ res.exc = ""
           /\ StrictGaps(res.val)
           /\ NoEmptyMember(res.val)
           /\ res.val = Ascending(Members(res.val))
           /\ Members(res.val)
                = {x \in {IAnd(a, b).val : a \in Members(A), b \in Members(B)} :
                      x # EMPTY_INTERVAL}
           /\ (Proper(A) /\ Proper(B)) => res.val = FromCov(Cov(A) \cap Cov(B))
           /\ (A = <<>> \/ B = <<>>) => res.val = <<>>

\* A & B has run on sets of which a member of A touches a member of B
\* (a.end = b.begin) and the result has two members.
C4_Witness ==
    /\ op = "IntervalSet.__and__"
    /\ Proper(A) /\ Proper(B)
    /\ \E a \in Members(A), b \in Members(B) : a.end = b.begin
    /\ Len(res.val) >= 2

\* C5: an Interval(x, x) behaves in & and | as EMPTY_INTERVAL would: with any
\* interval y on either side, & returns EMPTY_INTERVAL and | fails with
\* ValueError.  (Stated for y an Interval object.)
C5_EqualEndpointsActAsEmpty ==
    (/\ self.tag = "Interval" /\ other.tag = "Interval"
     /\ Degenerate(self) \/ Degenerate(other))
        => /\ op = "Interval.__and__" => res = Ok(EMPTY_INTERVAL)
           /\ op = "Interval.__or__" => res.exc = "ValueError"

\* C6: A == B is true if and only if the two sets hold the same sequence of
\* (begin, end) pairs.  (Stated for sets whose members have begin < end.)
C6_EqIsStructural ==
    (op = "IntervalSet.__eq__" /\ Proper(A) /\ Proper(B))
        => (res.val <=> (A = B))

\* C7: a | b fails with ValueError if and only if a is Empty, b is Empty or
\* a strict gap separates them; otherwise it returns
\* [min(a.begin, b.begin), max(a.end, b.end)].
C7_OrFailsIffEmptyOrGap ==
    op = "Interval.__or__"
        => LET bad == \/ self = EMPTY_INTERVAL
                      \/ other = EMPTY_INTERVAL
                      \/ self.end < other.begin
                      \/ other.end < self.begin
           IN  /\ (res.exc = "ValueError") <=> bad
               /\ ~bad => res = Ok(Tuple(
                     IF self.begin < other.begin THEN self.begin ELSE other.begin,
                     IF self.end > other.end THEN self.end ELSE other.end))

\* C8: when the loop of A - B ends because B's sequence is exhausted while a
\* remainder [cursor, e1] with cursor < e1 is pending, that remainder is
\* appended to new_items and so covered by the result, whatever the values
\* of cursor and e1.  (Stated for sets whose members have begin < end.)
C8_PendingRemainderFlushed ==
    (/\ op = "IntervalSet.__sub__"
     /\ Proper(A) /\ Proper(B)
     /\ sweep.stop = "it2"
     /\ sweep.cur # <<>>
     /\ sweep.cur[1] < sweep.cur[2])
        => /\ Tuple(sweep.cur[1], sweep.cur[2]) \in Members(sweep.new_items)
           /\ res.exc = ""
           /\ \E m \in Members(res.val) :
                 Within(Tuple(sweep.cur[1], sweep.cur[2]), m)

\* C9: the "Internal error" branch of _fill_items is unreachable: no
\* constructor call, whatever its arguments (Empty and equal-endpoint
\* intervals included), ends with that exception.
C9_InternalErrorUnreachable ==
    op = "IntervalSet" => res.exc # "Exception"

\* The constructor has returned from a sweep over MaxLen arguments that were
\* not in ascending order, an Interval(x, x) among them, and has unified
\* some of them.
C9_Witness ==
    /\ op = "IntervalSet"
    /\ res.exc = ""
    /\ Len(items) = MaxLen
    /\ TupleLess(items[2], items[1])
    /\ \E k \in 1..Len(items) : Degenerate(items[k])
    /\ Len(res.val) < Len(items)
    /\ Len(res.val) >= 2

\* C10: every member of A - B lies within a single member of A and shares no
\* range of positive length with any member of B.
C10_SubIsSound ==
    op = "IntervalSet.__sub__"
        => /\ res.exc = ""
           /\ \A m \in Members(res.val) :
                 /\ \E a \in Members(A) : Within(m, a)
                 /\ \A b \in Members(B) : ~Overlap(m, b)

\* A - B has returned a piece that lies between two members of B which both
\* cut into one member of A: it begins where one of them ends and ends where
\* the other begins, so its emission was deferred.
C10_Witness ==
    /\ op = "IntervalSet.__sub__"
    /\ Proper(A) /\ Proper(B)
    /\ \E m \in Members(res.val), a \in Members(A),
          p \in Members(B), q \in Members(B) :
          /\ m.begin = p.end /\ m.end = q.begin
          /\ Within(m, a) /\ Overlap(a, p) /\ Overlap(a, q)

====
